---- MODULE Spec2Model ----
(***************************************************************************)
(* Model of the ContactForm component (src/src/components/contact-form.tsx) *)
(* as a state machine over its React state (form, isSubmitted) and the DOM  *)
(* state its refs act on (the caret span's class, the input's focus).       *)
(* Every action is one browser event: the handlers the event runs, the      *)
(* re-render the state change causes and the useEffect that follows it.     *)
(***************************************************************************)
EXTENDS Integers, Sequences, FiniteSets, TLC

\* ---------------------------------------------------------------- bounds
\* Field values are the strings "", "a", "aa", ... up to MaxVal characters.
MaxVal == 2

RECURSIVE Rep(_)
Rep(n) == IF n = 0 THEN "" ELSE Rep(n - 1) \o "a"

Values == {Rep(i) : i \in 0..MaxVal}

\* Keys the user can press: the confirm key and one that is not it.
Keys == {"Enter", "a"}

\* ------------------------------------------------------------- constants
FIRST_STEP == 1
LAST_STEP == 4

VARIABLES
    form,         \* useState<FormState>: [step, name, email, description]
    isSubmitted,  \* useState(false)
    caretVisible, \* the mounted caret span has class "inline-block" (not "hidden")
    inputFocused, \* the mounted Input is the document's active element
    event,        \* history: the last event, with the state it was applied to
    effectRuns,   \* history: times the useEffect body called handleClick in the last event
    calls,        \* history: the calls on the refs made during the last event, in order
    typed         \* history: the last value typed at each step since mount or restart

vars == <<form, isSubmitted, caretVisible, inputFocused, event, effectRuns, calls, typed>>

\* The value useState<FormState> is constructed with.
InitialForm == [step |-> FIRST_STEP, name |-> "", email |-> "", description |-> ""]

\* ------------------------------------------------------- rendering (JSX)
\* isLastStep = useMemo(() => form.step === LAST_STEP, [form.step])
isLastStep(f) == f.step = LAST_STEP

\* Each step's block renders an editable Input (renderInputField) ...
EmailActive_AlwaysOn(f) == TRUE
EmailActive(f) == f.step = FIRST_STEP

NameActive(f) == f.step >= 2 /\ f.step = 2

DescriptionActive_NoUpper(f) == f.step >= 3
DescriptionActive(f) == f.step >= 3 /\ f.step = 3

\* ... or the read-only renderCompletedField ...
EmailCompleted(f) == f.step # FIRST_STEP /\ f.step > FIRST_STEP
NameCompleted(f) == f.step >= 2 /\ f.step # 2 /\ f.step > 2
DescriptionCompleted(f) == f.step >= 3 /\ f.step # 3 /\ f.step > 3

\* ... or nothing at all (the email block itself is always rendered).
EmailRendered(f) == EmailActive(f) \/ EmailCompleted(f)
NameRendered(f) == NameActive(f) \/ NameCompleted(f)
DescriptionRendered(f) == DescriptionActive(f) \/ DescriptionCompleted(f)

\* The set of step indices whose field has an editable control.
ActiveFields(f) ==
    {s \in {1} : EmailActive(f)} \cup {s \in {2} : NameActive(f)}
        \cup {s \in {3} : DescriptionActive(f)}

\* An Input (and with it a caret span) is mounted; inputRef/spanRef are non-null.
InputMounted(f) == ActiveFields(f) # {}

\* {isLastStep && ( ... {!isSubmitted && <Buttons .../>} )}
ButtonsRendered_NoSubmittedTest(f, sub) == isLastStep(f)
ButtonsRendered_AnyStep(f, sub) == ~sub
ButtonsRendered(f, sub) == isLastStep(f) /\ ~sub

\* ------------------------------------------------------------- handlers
\* setForm((prev) => ({ ...prev, step: prev.step + 1 }))
handleNextStep_Skip(f) == [f EXCEPT !.step = @ + 2]
handleNextStep_Back(f) == [f EXCEPT !.step = IF @ = 3 THEN 2 ELSE @ + 1]
handleNextStep(f) == [f EXCEPT !.step = @ + 1]

\* setForm({ step: FIRST_STEP, name: "", email: "", description: "" })
handleRestart_KeepsName(f) == [f EXCEPT !.step = FIRST_STEP, !.email = "", !.description = ""]
handleRestart(f) == [step |-> FIRST_STEP, name |-> "", email |-> "", description |-> ""]

\* The onChange callbacks handed to renderInputField by the three blocks:
\* each sets the field of its own block and nothing else.
onChange_WrongField(f, value) ==
    IF EmailActive(f) THEN [f EXCEPT !.email = value]
    ELSE IF NameActive(f) THEN [f EXCEPT !.name = value]
    ELSE [f EXCEPT !.description = value, !.email = value]
onChange(f, value) ==
    IF EmailActive(f) THEN [f EXCEPT !.email = value]
    ELSE IF NameActive(f) THEN [f EXCEPT !.name = value]
    ELSE [f EXCEPT !.description = value]

\* spanRef.current?.classList.replace("hidden", "inline-block")
handleVisibleSpan_Noop(f, caret) == caret
handleVisibleSpan(f, caret) == IF InputMounted(f) THEN TRUE ELSE caret

\* inputRef.current?.focus()
handleFocusOnInput_Noop(f, focus) == focus
handleFocusOnInput(f, focus) == IF InputMounted(f) THEN TRUE ELSE focus

\* The calls handleClick makes, in the order it makes them:
\* handleVisibleSpan(); handleFocusOnInput();
HandleClickOps_FocusFirst == <<"focus", "visible">>
HandleClickOps == <<"visible", "focus">>

\* One of these calls, on the DOM of form f.
DoOp(op, f, dom) ==
    IF op = "visible" THEN [dom EXCEPT !.caret = handleVisibleSpan(f, dom.caret)]
    ELSE [dom EXCEPT !.focus = handleFocusOnInput(f, dom.focus)]

\* handleClick on the mounted DOM of form f.
handleClick(f, dom) == DoOp(HandleClickOps[2], f, DoOp(HandleClickOps[1], f, dom))

\* The record of the calls one run of handleClick makes: who ran it (the
\* surface's onClick or the useEffect), which call, and whether the ref it
\* goes through was non-null (an element was there to act on).
ClickCalls(by, f) ==
    [i \in 1..Len(HandleClickOps) |->
        [by |-> by, op |-> HandleClickOps[i], hit |-> InputMounted(f)]]

\* ----------------------------------------------------- render and effect
\* A freshly mounted Input and caret span: class "hidden", not focused.
FreshDom == [caret |-> FALSE, focus |-> FALSE]

\* The DOM after React commits newF over oldF: a step change unmounts the old
\* Input and span and mounts fresh ones in the new step's block; without a
\* step change the elements are kept.
Commit(oldF, newF, dom) ==
    IF newF.step # oldF.step THEN FreshDom ELSE dom

\* useEffect(() => { if (form.step === FIRST_STEP) return; handleClick(); }, [form.step])
\* The body returns early at the first step ...
EffectBodyRuns_Always(f) == TRUE
EffectBodyRuns(f) == f.step # FIRST_STEP

\* ... and the effect runs after a commit in which form.step changed.
EffectFires_NoFirstStepTest(oldF, newF) == newF.step # oldF.step
EffectFires(oldF, newF) == newF.step # oldF.step /\ EffectBodyRuns(newF)

AfterRender(oldF, newF, dom) ==
    LET committed == Commit(oldF, newF, dom)
    IN  IF EffectFires(oldF, newF) THEN handleClick(newF, committed) ELSE committed

\* The effect also runs after the first render (mount).
Mounted ==
    IF EffectBodyRuns(InitialForm) THEN handleClick(InitialForm, FreshDom) ELSE FreshDom

Dom == [caret |-> caretVisible, focus |-> inputFocused]

Pre == [form |-> form, isSubmitted |-> isSubmitted, caret |-> caretVisible, focus |-> inputFocused]

\* No value has been typed into any of the three controls.
NothingTyped == [s \in 1..3 |-> ""]

\* One event: the handlers produced newF/newSub, made handlerCalls and left
\* the DOM as dom; React then re-renders and runs the effect.
Apply(ev, newF, newSub, dom, handlerCalls) ==
    LET after == AfterRender(form, newF, dom)
    IN  /\ form' = newF
        /\ isSubmitted' = newSub
        /\ caretVisible' = after.caret
        /\ inputFocused' = after.focus
        /\ effectRuns' = IF EffectFires(form, newF) THEN 1 ELSE 0
        /\ calls' = handlerCalls \o
                    (IF EffectFires(form, newF) THEN ClickCalls("effect", newF) ELSE <<>>)
        /\ typed' = IF ev.type = "change" THEN [typed EXCEPT ![form.step] = ev.value]
                    ELSE IF ev.type = "restart" THEN NothingTyped
                    ELSE typed
        /\ event' = ev

\* ----------------------------------------------------------------- state
Init ==
    /\ form = InitialForm
    /\ isSubmitted = FALSE
    /\ caretVisible = Mounted.caret
    /\ inputFocused = Mounted.focus
    /\ event = [type |-> "mount", key |-> "", value |-> "", onInput |-> FALSE,
                pre |-> [form |-> InitialForm, isSubmitted |-> FALSE,
                         caret |-> FALSE, focus |-> FALSE]]
    /\ effectRuns = IF EffectBodyRuns(InitialForm) THEN 1 ELSE 0
    /\ calls = IF EffectBodyRuns(InitialForm) THEN ClickCalls("effect", InitialForm) ELSE <<>>
    /\ typed = NothingTyped

Ev(type, key, value, onInput) ==
    [type |-> type, key |-> key, value |-> value, onInput |-> onInput, pre |-> Pre]

\* A key or input event reaches the Input only when it is mounted and is the
\* document's active element.
OnInput_NoFocus(f, focus) == InputMounted(f)
OnInput(f, focus) == InputMounted(f) /\ focus

\* The user types into the Input: onChange={(e) => onChange(e.target.value)}.
\* Only a mounted, focused Input receives input.
Change(value) ==
    /\ InputMounted(form)
    /\ inputFocused
    /\ Apply(Ev("change", "", value, TRUE), onChange(form, value), isSubmitted, Dom, <<>>)

\* The user presses a key. onKeyDown={(e) => e.key === "Enter" && handleNextStep()}
\* is on the Input, so it runs only when the Input is mounted and focused;
\* otherwise no handler of the component sees the key.
KeyDown(key) ==
    LET onInput == OnInput(form, inputFocused)
    IN  Apply(Ev("keydown", key, "", onInput),
              IF onInput /\ key = "Enter" THEN handleNextStep(form) ELSE form,
              isSubmitted, Dom, <<>>)

\* A click on the form surface outside the buttons: onClick={handleClick}.
ClickSurface ==
    Apply(Ev("click", "", "", FALSE), form, isSubmitted,
          handleClick(form, Dom), ClickCalls("click", form))

\* A click on "Restart": handleRestart, then the click bubbles to the
\* surface's handleClick, which acts on the DOM as it is before the re-render.
ClickRestart ==
    /\ ButtonsRendered(form, isSubmitted)
    /\ Apply(Ev("restart", "", "", FALSE), handleRestart(form), FALSE,
             handleClick(form, Dom), ClickCalls("click", form))

\* A click on "Send it!": handleSend = alert(...); setIsSubmitted(true), then
\* the click bubbles to the surface's handleClick.
ClickSend ==
    /\ ButtonsRendered(form, isSubmitted)
    /\ Apply(Ev("send", "", "", FALSE), form, TRUE,
             handleClick(form, Dom), ClickCalls("click", form))

\* The user moves focus away from the Input (a click outside the surface).
Blur ==
    /\ inputFocused
    /\ Apply(Ev("blur", "", "", FALSE), form, isSubmitted, [Dom EXCEPT !.focus = FALSE], <<>>)

Next ==
    \/ \E v \in Values : Change(v)
    \/ \E k \in Keys : KeyDown(k)
    \/ ClickSurface
    \/ ClickRestart
    \/ ClickSend
    \/ Blur

Spec == Init /\ [][Next]_vars

\* ---------------------------------------------------------------- claims
\* The field that belongs to step index s (email block, name block,
\* description block of the JSX).
Field(f, s) == IF s = 1 THEN f.email ELSE IF s = 2 THEN f.name ELSE f.description

\* The confirm key was pressed in the last event.
IsConfirm(ev) == ev.type = "keydown" /\ ev.key = "Enter"

\* C1: the confirm key delivered to the active field's control at step s in
\* 1..3 moves the form to step s+1 exactly; pressed at step 4 it changes
\* neither the form nor the submission flag.
C1_AdvanceByOne ==
    [][IsConfirm(event') =>
        /\ (form.step \in 1..3 /\ event'.onInput => form'.step = form.step + 1)
        /\ (form.step = 4 => form' = form /\ isSubmitted' = isSubmitted)]_vars

C1_Witness ==
    /\ IsConfirm(event)
    /\ event.onInput
    /\ event.pre.form.step = 3
    /\ form.step = 4

\* C2: in every reachable state step is an integer between 1 and 4.
C2_StepInRange == form.step \in FIRST_STEP..LAST_STEP

C2_Witness ==
    /\ IsConfirm(event)
    /\ event.pre.form.step = LAST_STEP
    /\ form.step = LAST_STEP

\* C3: every restart ends with step 1, the three fields empty and the
\* submission flag false.
C3_RestartResets ==
    [][event'.type = "restart" =>
        /\ form'.step = 1
        /\ form'.email = "" /\ form'.name = "" /\ form'.description = ""
        /\ isSubmitted' = FALSE]_vars

C3_Witness ==
    /\ event.type = "restart"
    /\ event.pre.form.email # ""
    /\ event.pre.form.name # ""
    /\ event.pre.form.description # ""
    /\ form.step = 1

\* C4: nothing sets the submission flag away from step 4, a send sets it,
\* and once set it stays set in every step that is not a restart.
C4_SubmitOnlyAtLastStep ==
    [][/\ (form.step # 4 => isSubmitted' = isSubmitted)
       /\ (isSubmitted' /\ ~isSubmitted => event'.type = "send")
       /\ (event'.type = "send" => form.step = 4 /\ isSubmitted')
       /\ (isSubmitted /\ event'.type # "restart" => isSubmitted')]_vars

C4_Witness ==
    /\ isSubmitted
    /\ event.type = "click"
    /\ event.pre.isSubmitted

\* C5: a value typed into the active step's control becomes the value of
\* that step's field; the other two fields and step keep their values.
C5_UpdateFieldFrame ==
    [][event'.type = "change" =>
        /\ form'.step = form.step
        /\ Field(form', form.step) = event'.value
        /\ \A t \in (1..3) \ {form.step} : Field(form', t) = Field(form, t)]_vars

C5_Witness ==
    /\ event.type = "change"
    /\ form.step = 2
    /\ event.pre.form.name # ""
    /\ form.name # event.pre.form.name
    /\ form.email # ""

\* C6: a field whose step index is below step keeps its value in every step
\* that is not a restart.
C6_OneDirectionalEdits ==
    [][event'.type # "restart" =>
        \A t \in 1..3 : form.step > t => Field(form', t) = Field(form, t)]_vars

C6_Witness ==
    /\ event.type = "change"
    /\ form.step = 3
    /\ form.email # ""
    /\ form.name # ""
    /\ form.description # event.pre.form.description

\* C7: step decreases only in a restart, and then to 1.
C7_StepMonotone ==
    [][form'.step < form.step => event'.type = "restart" /\ form'.step = 1]_vars

C7_Witness ==
    /\ event.type = "restart"
    /\ event.pre.form.step = 4
    /\ form.step = 1

\* C8 (as stated): in every reachable state exactly one field is active, the
\* one whose index is step; fields below step are completed and fields above
\* step are not rendered.
Completed(f, s) ==
    IF s = 1 THEN EmailCompleted(f) ELSE IF s = 2 THEN NameCompleted(f) ELSE DescriptionCompleted(f)

Rendered(f, s) ==
    IF s = 1 THEN EmailRendered(f) ELSE IF s = 2 THEN NameRendered(f) ELSE DescriptionRendered(f)

C8_Original ==
    /\ Cardinality(ActiveFields(form)) = 1
    /\ ActiveFields(form) = {form.step}
    /\ \A t \in 1..3 : (t < form.step => Completed(form, t)) /\ (t > form.step => ~Rendered(form, t))

\* C8 (amended): at steps 1..3 exactly one field is active, the one whose
\* index is step, and at step 4 none is; in every state the fields below step
\* are completed and not active, and the fields above step are not rendered.
C8_ActiveFieldByStep ==
    /\ form.step \in 1..3 => ActiveFields(form) = {form.step}
    /\ form.step = 4 => ActiveFields(form) = {}
    /\ \A t \in 1..3 :
        /\ t < form.step => Completed(form, t) /\ t \notin ActiveFields(form)
        /\ t > form.step => ~Rendered(form, t)
        /\ Completed(form, t) => t < form.step

C8_Witness ==
    /\ form.step = 4
    /\ ActiveFields(form) = {}
    /\ \A t \in 1..3 : Completed(form, t)

\* C9: a send at step 4 sets the submission flag and leaves step and the
\* three fields as they were; a confirm key after it changes nothing.
C9_SubmitFrame ==
    [][/\ (event'.type = "send" => form.step = 4 /\ isSubmitted' /\ form' = form)
       /\ (isSubmitted /\ IsConfirm(event') => form' = form /\ isSubmitted')]_vars

C9_Witness ==
    /\ isSubmitted
    /\ IsConfirm(event)
    /\ event.pre.isSubmitted
    /\ form.step = 4
    /\ form.description # ""

\* C10 (as stated): from a submitted state (step 4, submission flag true) a
\* restart can be performed and leads to the initial state.
RestartToInitial == ClickRestart /\ form' = InitialForm /\ isSubmitted' = FALSE

C10_Original ==
    (form.step = 4 /\ isSubmitted) => ENABLED RestartToInitial

\* C10 (amended): a restart can be performed from step 4 while the
\* submission flag is false, and leads to step 1 with the three fields empty
\* and the flag false; once the flag is true no restart can be performed.
C10_RestartBeforeSubmit ==
    /\ (form.step = 4 /\ ~isSubmitted) => ENABLED RestartToInitial
    /\ isSubmitted => ~ENABLED ClickRestart

C10_Witness ==
    /\ event.type = "restart"
    /\ event.pre.form.step = 4
    /\ ~event.pre.isSubmitted
    /\ form = InitialForm
    /\ ~isSubmitted
    /\ event.pre.form.email # ""

\* {isSubmitted && <p> ... Sent! ... </p>}
ConfirmationRendered(sub) == sub

\* C11: the buttons are rendered, and a click on Restart or on Send is
\* possible, exactly when step is 4 and the submission flag is false; when
\* the flag is true the confirmation message is rendered in their place.
C11_ButtonsAvailability ==
    /\ ButtonsRendered(form, isSubmitted) <=> (form.step = 4 /\ ~isSubmitted)
    /\ (ENABLED ClickRestart) <=> (form.step = 4 /\ ~isSubmitted)
    /\ (ENABLED ClickSend) <=> (form.step = 4 /\ ~isSubmitted)
    /\ ~(ButtonsRendered(form, isSubmitted) /\ ConfirmationRendered(isSubmitted))
    /\ isSubmitted => ConfirmationRendered(isSubmitted) /\ ~ButtonsRendered(form, isSubmitted)

C11_Witness ==
    /\ event.type = "send"
    /\ isSubmitted
    /\ ConfirmationRendered(isSubmitted)
    /\ ~ENABLED ClickSend

\* C12: when the third confirm brings the form to step 4, email, name and
\* description are the values last typed at steps 1, 2 and 3 (the empty
\* string where nothing was typed) and the submission flag is false; every
\* confirm leaves the three fields and the submission flag as they were.
C12_FillSequence ==
    /\ [](IsConfirm(event) /\ event.onInput /\ event.pre.form.step = 3 =>
            /\ form.step = 4
            /\ form.email = typed[1]
            /\ form.name = typed[2]
            /\ form.description = typed[3]
            /\ ~isSubmitted)
    /\ [][IsConfirm(event') /\ event'.onInput =>
            /\ form'.email = form.email
            /\ form'.name = form.name
            /\ form'.description = form.description
            /\ isSubmitted' = isSubmitted]_vars

C12_Witness ==
    /\ IsConfirm(event)
    /\ event.onInput
    /\ event.pre.form.step = 3
    /\ form = [step |-> 4, email |-> "a", name |-> "", description |-> "aa"]
    /\ typed = <<"a", "", "aa">>
    /\ ~isSubmitted

\* The number of calls of op made by caller by in the call record cs.
CountCalls(cs, by, op) ==
    Cardinality({i \in DOMAIN cs : cs[i].by = by /\ cs[i].op = op})

\* C13: in every transition that changes step to a value above 1 the effect
\* calls the caret-visibility toggle exactly once and the focus move exactly
\* once; in a transition that changes step to 1 the effect calls neither.
C13_EffectOncePerTransition ==
    [][form'.step # form.step =>
        IF form'.step > 1
        THEN /\ effectRuns' = 1
             /\ CountCalls(calls', "effect", "visible") = 1
             /\ CountCalls(calls', "effect", "focus") = 1
        ELSE /\ effectRuns' = 0
             /\ CountCalls(calls', "effect", "visible") = 0
             /\ CountCalls(calls', "effect", "focus") = 0]_vars

C13_Witness ==
    /\ IsConfirm(event)
    /\ event.pre.form.step = 2
    /\ form.step = 3
    /\ effectRuns = 1
    /\ calls = ClickCalls("effect", form)

\* C14 (as stated): after every change of step to a step with an active
\* field, the caret is visible and the active field's control has focus.
C14_Original ==
    [][form'.step # form.step /\ InputMounted(form') =>
        caretVisible' /\ inputFocused']_vars

\* C14 (amended): after every change of step to 2 or 3 the effect has run
\* and the caret is visible and the active field's control has focus; after
\* a change of step to 1 the effect body is skipped, the caret is hidden and
\* the control has no focus.
C14_EffectAfterStepChange ==
    [][form'.step # form.step =>
        /\ form'.step \in {2, 3} => effectRuns' = 1 /\ caretVisible' /\ inputFocused'
        /\ form'.step = 1 => effectRuns' = 0 /\ ~caretVisible' /\ ~inputFocused']_vars

C14_Witness ==
    /\ IsConfirm(event)
    /\ event.pre.form.step = 1
    /\ form.step = 2
    /\ caretVisible
    /\ inputFocused

\* C15: after mount the effect has made no call, the caret is hidden and the
\* control has no focus; a hidden caret becomes visible only in a click on
\* the surface or in a transition that changes step.
C15_CaretHiddenAtMount ==
    /\ [](event.type = "mount" =>
            ~caretVisible /\ ~inputFocused /\ effectRuns = 0 /\ calls = <<>>)
    /\ [][~caretVisible /\ caretVisible' =>
            event'.type = "click" \/ form'.step # form.step]_vars

C15_Witness ==
    /\ event.type = "keydown"
    /\ event.pre.form = InitialForm
    /\ ~event.pre.caret
    /\ form = InitialForm
    /\ ~caretVisible

\* C16: a click on the surface at a step with an active field (1..3) leaves
\* the caret visible and the active field's control focused, whatever they
\* were before.
C16_ClickRestoresFocus ==
    [][event'.type = "click" /\ form.step \in 1..3 =>
        /\ caretVisible'
        /\ inputFocused'
        /\ \A i \in DOMAIN calls' : calls'[i].by = "click" /\ calls'[i].hit]_vars

C16_Witness ==
    /\ event.type = "click"
    /\ form.step = 1
    /\ ~event.pre.caret
    /\ ~event.pre.focus
    /\ caretVisible
    /\ inputFocused

\* C17: a run of the focus/visibility effect changes neither the form nor
\* the submission flag (a click leaves them as they were, a step-change
\* effect adds nothing to what handleNextStep did); within a run the caret
\* toggle is called before the focus move; and running it on its own result
\* changes nothing more.
C17_EffectPureOrderedIdempotent ==
    /\ [](/\ \A i, j \in DOMAIN calls :
                (calls[i].by = calls[j].by /\ calls[i].op = "visible" /\ calls[j].op = "focus")
                    => i < j
          /\ handleClick(form, handleClick(form, Dom)) = handleClick(form, Dom))
    /\ [][/\ event'.type = "click" => form' = form /\ isSubmitted' = isSubmitted
          /\ effectRuns' = 1 => form' = handleNextStep(form) /\ isSubmitted' = isSubmitted
          /\ (event.type = "click" /\ event'.type = "click") =>
                caretVisible' = caretVisible /\ inputFocused' = inputFocused]_vars

C17_Witness ==
    /\ event.type = "click"
    /\ event.pre.caret
    /\ event.pre.focus
    /\ caretVisible
    /\ inputFocused
    /\ Len(calls) = 2
    /\ calls[1].op = "visible"

\* C18: the confirm key advances step by one when the active field's control
\* is mounted and focused, whatever the field holds; otherwise it changes
\* nothing. After mount the control has no focus.
C18_ConfirmNeedsFocus ==
    /\ [](event.type = "mount" => ~inputFocused)
    /\ [][IsConfirm(event') =>
            IF InputMounted(form) /\ inputFocused
            THEN form'.step = form.step + 1
            ELSE /\ form' = form
                 /\ isSubmitted' = isSubmitted
                 /\ caretVisible' = caretVisible
                 /\ inputFocused' = inputFocused]_vars

C18_Witness ==
    /\ IsConfirm(event)
    /\ event.onInput
    /\ event.pre.focus
    /\ event.pre.form.step = 1
    /\ event.pre.form.email = ""
    /\ form.step = 2
    /\ form.email = ""

\* C19: in every reachable state the submission flag is true only at step 4.
C19_SubmittedOnlyAtLastStep == isSubmitted => form.step = 4

C19_Witness ==
    /\ isSubmitted
    /\ form.step = 4
    /\ event.type = "keydown"
    /\ event.key = "a"
    /\ event.pre.isSubmitted

\* C20: after a restart the form, the submission flag, the caret and the
\* focus are as they are after mount: step 1, fields empty, flag false, caret
\* hidden, control not focused. The click's own handleClick found no element
\* to act on and the effect made no call.
C20_RestartEqualsMount ==
    [][event'.type = "restart" =>
        /\ form' = InitialForm
        /\ isSubmitted' = FALSE
        /\ [caret |-> caretVisible', focus |-> inputFocused'] = Mounted
        /\ ~caretVisible'
        /\ ~inputFocused'
        /\ effectRuns' = 0
        /\ \A i \in DOMAIN calls' : calls'[i].by = "click" /\ ~calls'[i].hit]_vars

C20_Witness ==
    /\ event.type = "restart"
    /\ form = InitialForm
    /\ ~isSubmitted
    /\ ~caretVisible
    /\ ~inputFocused
    /\ Len(calls) = 2
    /\ ~calls[1].hit

====
